---- MODULE Spec2Model ----
(***************************************************************************)
(* A model of src/grokandchatgptmakeswii.py: the MewDolphin core (CPU,     *)
(* GPU, audio and input units and the frame stepper) and the commands of   *)
(* WiiEmulatorApp that drive it (run, pause, reset, step frame, the timer  *)
(* tick and the key events).                                               *)
(*                                                                         *)
(* Python integers are unbounded and the program counter starts at         *)
(* 0x80000000, above the largest integer of the model checker, so the CPU's *)
(* register values and its tick counter are kept as two limbs <<hi, lo>>   *)
(* denoting hi * 2^16 + lo with 0 <= lo < 2^16.  Clock readings are        *)
(* integers in microseconds, taken relative to MewDolphin.last_frame_time. *)
(***************************************************************************)
EXTENDS Integers, Sequences, FiniteSets, TLC

VARIABLES
    cpu,          \* WiiCPUCore: registers and state
    gpu,          \* WiiGPUCore: state, framebuffer, backbuffer
    audio,        \* WiiAudioCore: cursors and state
    input,        \* WiiInputCore: button_state and state
    sys,          \* MewDolphin.state
    app_running,  \* WiiEmulatorApp.running
    last_op,      \* history: the callback or method that ran last
    calls,        \* history: WiiCPUCore.step() calls made with the running
                  \* flag set, since construction or the last CPU reset
    hist          \* history of the calls made on one unit on its own: the
                  \* arguments and outcome of the last call, and counts
                  \* kept since the unit was constructed or reset

vars == <<cpu, gpu, audio, input, sys, app_running, last_op, calls, hist>>

----------------------------------------------------------------------------
(* Program constants *)

CpuClockKHz == 486000
FrameRate == 60
GpuWidth == 320
GpuHeight == 240
AudioBufferSize == 44100
SamplesPerStep == 1024
NumButtons == 16
NumRegs == 32
FrameTime == 16667
TicksPerInstr == 3

StepsPerFrame == CpuClockKHz \div FrameRate

(* Bounds of the model *)

\* The user issues commands and key events only while the system frame
\* counter is below MaxCmdFrames, or once the first display frame is
\* complete (frame counter >= GpuHeight); in between only the timer fires.
MaxCmdFrames == 2
\* Frames are executed while the system frame counter is below
\* GpuHeight + ExtraFrames.
ExtraFrames == 1
\* WiiCPUCore.step() is called at most MaxSteps times in the CPU-only
\* specification.
MaxSteps == 3

----------------------------------------------------------------------------
(* Unbounded integers as limbs *)

W == 2^16

Big(hi, lo) == <<hi, lo>>

BigAddInt(a, k) == LET l == a[2] + k IN <<a[1] + (l \div W), l % W>>

BigAdd(a, b) == LET l == a[2] + b[2] IN <<a[1] + b[1] + (l \div W), l % W>>

BigOfInt(n) == <<n \div W, n % W>>

BigMulInt(a, k) == LET l == a[2] * k IN <<a[1] * k + (l \div W), l % W>>

\* (a >> s) & (2^w - 1), for a field that lies in one limb or across both
BitsOf(a, s, w) ==
    IF s >= 16 THEN (a[1] \div (2^(s - 16))) % (2^w)
    ELSE IF s + w <= 16 THEN (a[2] \div (2^s)) % (2^w)
    ELSE (a[2] \div (2^s)) + (a[1] % (2^(s + w - 16))) * (2^(16 - s))

----------------------------------------------------------------------------
(* Formatting used by the debug_state methods *)

HexChar == <<"0", "1", "2", "3", "4", "5", "6", "7",
             "8", "9", "A", "B", "C", "D", "E", "F">>

\* format(n, "0<width>X") for an integer 0 <= n of the model checker's range
RECURSIVE HexInt(_, _)
HexInt(n, width) ==
    IF n < 16 /\ width <= 1 THEN HexChar[n + 1]
    ELSE HexInt(n \div 16, width - 1) \o HexChar[(n % 16) + 1]

\* format(a, "0<width>X") for a limb value a >= 0, width >= 4
HexBig(a, width) ==
    IF a[1] = 0 THEN HexInt(a[2], width)
    ELSE HexInt(a[1], width - 4) \o HexInt(a[2], 4)

\* The value v = num / den printed with one decimal, in tenths:
\* format(v, ".1f") shows Tenths(v) / 10
Tenths(v) == (2 * 10 * v.num + v.den) \div (2 * v.den)

Rat(n, d) == [num |-> n, den |-> d]

----------------------------------------------------------------------------
(* WiiCPUCore *)

CPUInit ==
    [PC |-> Big(32768, 0),
     LR |-> Big(0, 0),
     CTR |-> Big(0, 0),
     GPR |-> [i \in 0..(NumRegs - 1) |-> Big(0, 0)],
     FPR |-> [i \in 0..(NumRegs - 1) |-> 0],
     running |-> FALSE,
     ticks |-> Big(0, 0),
     instructions_executed |-> 0,
     last_pc |-> Big(0, 0)]

\* CPUReset with last_pc taken from the PC before it is restored
CPUResetStaleLastPC(c) ==
    [c EXCEPT !.PC = Big(32768, 0),
              !.GPR = [i \in 0..(NumRegs - 1) |->
                          IF i = 1 THEN Big(33151, 0) ELSE Big(0, 0)],
              !.ticks = Big(0, 0),
              !.instructions_executed = 0,
              !.last_pc = c.PC]

CPUReset(c) ==
    [c EXCEPT !.PC = Big(32768, 0),
              !.GPR = [i \in 0..(NumRegs - 1) |->
                          IF i = 1 THEN Big(33151, 0) ELSE Big(0, 0)],
              !.ticks = Big(0, 0),
              !.instructions_executed = 0,
              !.last_pc = Big(32768, 0)]

\* CPUNextPC taking the instruction type one bit too low
CPUNextPCShift25(pc, gpr) ==
    LET instruction_type == BitsOf(pc, 25, 6)
    IN  IF instruction_type = 16 THEN
            LET o == BitsOf(pc, 0, 26) * 4
                offset == IF (o \div (2^25)) % 2 = 1
                          THEN o - 2^26 ELSE o
            IN  BigAddInt(pc, offset)
        ELSE IF instruction_type = 28 THEN
            LET cr_bit == BitsOf(pc, 21, 5)
            IN  IF BitsOf(gpr[0], 31 - cr_bit, 1) = 1
                THEN LET o == BitsOf(pc, 0, 16) * 4
                         offset == IF (o \div (2^15)) % 2 = 1
                                   THEN o - 2^16 ELSE o
                     IN  BigAddInt(pc, offset)
                ELSE BigAddInt(pc, 4)
        ELSE BigAddInt(pc, 4)

\* The program counter after the step at pc, given the registers
CPUNextPC(pc, gpr) ==
    LET instruction_type == BitsOf(pc, 26, 6)
    IN  IF instruction_type = 16 THEN
            LET o == BitsOf(pc, 0, 26) * 4
                offset == IF (o \div (2^25)) % 2 = 1
                          THEN o - 2^26 ELSE o
            IN  BigAddInt(pc, offset)
        ELSE IF instruction_type = 28 THEN
            LET cr_bit == BitsOf(pc, 21, 5)
            IN  IF BitsOf(gpr[0], 31 - cr_bit, 1) = 1
                THEN LET o == BitsOf(pc, 0, 16) * 4
                         offset == IF (o \div (2^15)) % 2 = 1
                                   THEN o - 2^16 ELSE o
                     IN  BigAddInt(pc, offset)
                ELSE BigAddInt(pc, 4)
        ELSE BigAddInt(pc, 4)

\* The general-purpose registers after the step at pc
CPUNextGPR(pc, gpr) ==
    LET instruction_type == BitsOf(pc, 26, 6)
        reg_a == BitsOf(pc, 21, 5)
        reg_b == BitsOf(pc, 16, 5)
        reg_d == BitsOf(pc, 11, 5)
        opcode == BitsOf(pc, 1, 10)
    IN  IF instruction_type = 31 /\ opcode = 522
        THEN [gpr EXCEPT ![reg_d] = BigAdd(gpr[reg_a], gpr[reg_b])]
        ELSE gpr

\* CPUStep returning from the branch path before the counters are updated
CPUStepBranchReturns(c) ==
    IF ~c.running THEN c
    ELSE LET pc == c.PC
         IN  IF BitsOf(pc, 26, 6) \in {16, 28}
             THEN [c EXCEPT !.last_pc = pc, !.PC = CPUNextPC(pc, c.GPR)]
             ELSE [c EXCEPT !.last_pc = pc,
                            !.PC = CPUNextPC(pc, c.GPR),
                            !.GPR = CPUNextGPR(pc, c.GPR),
                            !.ticks = BigAddInt(@, TicksPerInstr),
                            !.instructions_executed = @ + 1]

\* CPUStep without the test of the running flag
CPUStepUnguarded(c) ==
    LET pc == c.PC
    IN  [c EXCEPT !.last_pc = pc,
                  !.PC = CPUNextPC(pc, c.GPR),
                  !.GPR = CPUNextGPR(pc, c.GPR),
                  !.ticks = BigAddInt(@, TicksPerInstr),
                  !.instructions_executed = @ + 1]

CPUStep(c) ==
    IF ~c.running THEN c
    ELSE LET pc == c.PC
         IN  [c EXCEPT !.last_pc = pc,
                       !.PC = CPUNextPC(pc, c.GPR),
                       !.GPR = CPUNextGPR(pc, c.GPR),
                       !.ticks = BigAddInt(@, TicksPerInstr),
                       !.instructions_executed = @ + 1]

\* n calls of step(), as the loop of step_frame makes them.  The first
\* half is evaluated before the second is started.
RECURSIVE CPUSteps(_, _)
CPUSteps(c, n) ==
    IF n = 0 THEN c
    ELSE IF n = 1 THEN CPUStep(c)
    ELSE LET h == CPUSteps(c, n \div 2)
         IN  IF h.running \in BOOLEAN THEN CPUSteps(h, n - (n \div 2)) ELSE h

CPUDebugState(c) ==
    [PC |-> "0x" \o HexBig(c.PC, 8),
     LastPC |-> "0x" \o HexBig(c.last_pc, 8),
     GPR1 |-> "0x" \o HexBig(c.GPR[1], 8),
     GPR3 |-> "0x" \o HexBig(c.GPR[3], 8),
     Instructions |-> c.instructions_executed,
     CPUTicks |-> c.ticks]

----------------------------------------------------------------------------
(* WiiGPUCore *)

\* A pixel grid is one of two patterns: the moving gradient drawn with
\* frame_offset = offset * 0.1 (clear_buffers draws the framebuffer with
\* offset 0), or the second pattern clear_buffers draws into the backbuffer.
MovingPattern(offset) == [kind |-> "moving", offset |-> offset]
BackPattern == [kind |-> "back", offset |-> 0]

\* clear_buffers: two new lists; id tells the two list objects apart
GPUClearBuffers(g) ==
    [g EXCEPT !.framebuffer = [id |-> 0, px |-> MovingPattern(0)],
              !.backbuffer = [id |-> 1, px |-> BackPattern]]

GPUInit(width, height) ==
    GPUClearBuffers(
        [width |-> width,
         height |-> height,
         framebuffer |-> [id |-> 0, px |-> <<>>],
         backbuffer |-> [id |-> 1, px |-> <<>>],
         frame_count |-> 0,
         vblank |-> FALSE,
         current_line |-> 0,
         render_time |-> 0])

GPUReset(g) ==
    GPUClearBuffers([g EXCEPT !.frame_count = 0, !.current_line = 0])

\* GPUStep wrapping one step late
GPUStepLateWrap(g) ==
    IF g.current_line + 1 > g.height
    THEN [g EXCEPT !.current_line = 0,
                   !.vblank = TRUE,
                   !.frame_count = @ + 1,
                   !.framebuffer = g.backbuffer,
                   !.backbuffer = [id |-> g.framebuffer.id,
                                   px |-> MovingPattern(g.frame_count + 1)]]
    ELSE [g EXCEPT !.current_line = @ + 1,
                   !.vblank = FALSE]

\* GPUStep drawing the moving pattern before it swaps, so into the list
\* that becomes the framebuffer
GPUStepDrawThenSwap(g) ==
    IF g.current_line + 1 >= g.height
    THEN [g EXCEPT !.current_line = 0,
                   !.vblank = TRUE,
                   !.frame_count = @ + 1,
                   !.framebuffer = [id |-> g.backbuffer.id,
                                    px |-> MovingPattern(g.frame_count + 1)],
                   !.backbuffer = g.framebuffer]
    ELSE [g EXCEPT !.current_line = @ + 1,
                   !.vblank = FALSE]

GPUStep(g) ==
    IF g.current_line + 1 >= g.height
    THEN [g EXCEPT !.current_line = 0,
                   !.vblank = TRUE,
                   !.frame_count = @ + 1,
                   !.framebuffer = g.backbuffer,
                   !.backbuffer = [id |-> g.framebuffer.id,
                                   px |-> MovingPattern(g.frame_count + 1)]]
    ELSE [g EXCEPT !.current_line = @ + 1,
                   !.vblank = FALSE]

GPUDebugState(g) ==
    [Frame |-> g.frame_count,
     Scanline |-> g.current_line,
     VBlank |-> IF g.vblank THEN "Yes" ELSE "No",
     Resolution |-> <<g.width, "x", g.height>>]

----------------------------------------------------------------------------
(* WiiAudioCore *)

\* buffer_written counts the slots of buffer that hold a generated sample
\* (the others hold the 0 they were created with); the sample written at
\* sample_count n is a fixed function of n.
AudioInit(buffer_size) ==
    [buffer_size |-> buffer_size,
     buffer_written |-> 0,
     write_pos |-> 0,
     read_pos |-> 0,
     buffer_fill |-> Rat(0, 1),
     sample_count |-> 0,
     silent_frames |-> 0]

\* AudioReset leaving the stored fill as it was
AudioResetStaleFill(a) ==
    [a EXCEPT !.buffer_written = 0,
              !.write_pos = 0,
              !.read_pos = 0,
              !.sample_count = 0]

AudioReset(a) ==
    [a EXCEPT !.buffer_written = 0,
              !.write_pos = 0,
              !.read_pos = 0,
              !.buffer_fill = Rat(0, 1),
              !.sample_count = 0]

\* One pass of the sample loop
AudioWriteSample(a) ==
    [a EXCEPT !.buffer_written = IF @ < a.buffer_size THEN @ + 1 ELSE @,
              !.write_pos = (@ + 1) % a.buffer_size,
              !.sample_count = @ + 1]

RECURSIVE AudioWriteSamples(_, _)
AudioWriteSamples(a, n) ==
    IF n = 0 THEN a
    ELSE IF n = 1 THEN AudioWriteSample(a)
    ELSE LET h == AudioWriteSamples(a, n \div 2)
         IN  IF h.write_pos >= 0 THEN AudioWriteSamples(h, n - (n \div 2)) ELSE h

\* AudioStep taking the samples written so far for the samples available
AudioStepFillFromCount(a) ==
    LET b == AudioWriteSamples(a, SamplesPerStep)
        available == b.sample_count - b.read_pos
    IN  [b EXCEPT !.buffer_fill = Rat(available * 100, b.buffer_size)]

AudioStep(a) ==
    LET b == AudioWriteSamples(a, SamplesPerStep)
        available == (b.write_pos - b.read_pos) % b.buffer_size
    IN  [b EXCEPT !.buffer_fill = Rat(available * 100, b.buffer_size)]

AudioDebugState(a) ==
    [BufferFill |-> Tenths(a.buffer_fill),
     Samples |-> a.sample_count,
     Frequency |-> 4400]

----------------------------------------------------------------------------
(* WiiInputCore *)

ButtonNames == <<"A", "B", "ONE", "TWO", "MINUS", "HOME", "PLUS",
                 "UP", "DOWN", "LEFT", "RIGHT">>

\* key_map, as the set of <<key, button>> pairs
KeyMap == {<<"w", 7>>, <<"s", 8>>, <<"a", 9>>, <<"d", 10>>, <<"z", 0>>,
           <<"x", 1>>, <<"Return", 6>>, <<"BackSpace", 4>>, <<"Shift_L", 5>>,
           <<"1", 2>>, <<"2", 3>>}

MappedKeys == {m[1] : m \in KeyMap}

ButtonOf(key) == (CHOOSE m \in KeyMap : m[1] = key)[2]

InputInit ==
    [button_state |-> [i \in 0..(NumButtons - 1) |-> FALSE],
     active_buttons |-> 0]

\* InputReset leaving the mask as it was
InputResetKeepsMask(i) ==
    [i EXCEPT !.button_state = [b \in 0..(NumButtons - 1) |-> FALSE]]

InputReset(i) ==
    [i EXCEPT !.button_state = [b \in 0..(NumButtons - 1) |-> FALSE],
              !.active_buttons = 0]

\* The mask loop of set_button
RECURSIVE ButtonMask(_, _)
ButtonMask(bs, n) ==
    IF n = 0 THEN 0
    ELSE ButtonMask(bs, n - 1) + (IF bs[n - 1] THEN 2^(n - 1) ELSE 0)

\* set_button: the input unit afterwards and the exception raised, if any.
\* An index of 16 or more skips the assignment; a negative index counts
\* from the end of the list, and one below -16 makes the assignment raise
\* IndexError before the mask is touched.
SetButton(i, button, pressed) ==
    IF button < NumButtons /\ button < -NumButtons
    THEN [input |-> i, error |-> "IndexError"]
    ELSE LET bs == IF button < NumButtons
                   THEN [i.button_state EXCEPT
                            ![IF button < 0 THEN button + NumButtons
                                            ELSE button] = pressed]
                   ELSE i.button_state
         IN  [input |-> [i EXCEPT !.button_state = bs,
                                  !.active_buttons = ButtonMask(bs, NumButtons)],
              error |-> "none"]

\* HandleKey inverting the button of a mapped key instead of setting it
HandleKeyToggles(i, key, pressed) ==
    IF key \in MappedKeys
    THEN [input |-> SetButton(i, ButtonOf(key),
                              ~i.button_state[ButtonOf(key)]).input,
          result |-> TRUE]
    ELSE [input |-> i, result |-> FALSE]

\* handle_key: the input unit afterwards, and the value returned
HandleKey(i, key, pressed) ==
    IF key \in MappedKeys
    THEN [input |-> SetButton(i, ButtonOf(key), pressed).input,
          result |-> TRUE]
    ELSE [input |-> i, result |-> FALSE]

InputDebugState(i) ==
    [Buttons |-> {ButtonNames[b + 1] :
                    b \in {x \in 0..(Len(ButtonNames) - 1) : i.button_state[x]}},
     ButtonMask |-> "0x" \o HexInt(i.active_buttons, 4)]

----------------------------------------------------------------------------
(* MewDolphin *)

\* A MewDolphin object: its four units and its state dictionary.  slept,
\* frame_duration and elapsed are history: the seconds (here microseconds)
\* step_frame last passed to time.sleep, 0 when it did not sleep, and the
\* values its locals frame_duration and elapsed last had.
MDInit ==
    [cpu |-> CPUInit,
     gpu |-> GPUInit(GpuWidth, GpuHeight),
     audio |-> AudioInit(AudioBufferSize),
     input |-> InputInit,
     state |-> [running |-> FALSE,
                paused |-> FALSE,
                speed_percent |-> 100,
                frame_time |-> FrameTime,
                actual_speed |-> Rat(0, 1),
                frame_count |-> 0,
                slept |-> 0,
                frame_duration |-> 0,
                elapsed |-> 0]]

\* MDReset leaving the system frame counter as it was
MDResetKeepsFrameCount(m) ==
    [m EXCEPT !.cpu = CPUReset(@),
              !.gpu = GPUReset(@),
              !.audio = AudioReset(@),
              !.input = InputReset(@)]

MDReset(m) ==
    [m EXCEPT !.cpu = CPUReset(@),
              !.gpu = GPUReset(@),
              !.audio = AudioReset(@),
              !.input = InputReset(@),
              !.state.frame_count = 0]

\* MDFrameWork with the CPU loop one pass short
MDFrameWorkShortLoop(m) ==
    [m EXCEPT !.cpu = CPUSteps(@, StepsPerFrame - 1),
              !.gpu = GPUStep(@),
              !.audio = AudioStep(@),
              !.state.frame_count = @ + 1]

\* The work of one frame: the CPU loop, the GPU and audio steps, the counter
MDFrameWork(m) ==
    [m EXCEPT !.cpu = CPUSteps(@, StepsPerFrame),
              !.gpu = GPUStep(@),
              !.audio = AudioStep(@),
              !.state.frame_count = @ + 1]

\* MDPace sleeping for what the frame's own duration leaves of the target
MDPaceFromDuration(st, idle, duration) ==
    LET elapsed == idle + duration
        target_time == st.frame_time
    IN  [st EXCEPT !.actual_speed = IF duration > 0
                                    THEN Rat(st.frame_time * 100, duration)
                                    ELSE @,
                   !.slept = IF duration < target_time
                             THEN target_time - duration
                             ELSE 0,
                   !.frame_duration = duration,
                   !.elapsed = elapsed]

\* The timing part of step_frame.  idle = frame_start - last_frame_time and
\* duration = frame_end - frame_start are what the clock shows.
MDPace(st, idle, duration) ==
    LET elapsed == idle + duration
        target_time == st.frame_time
    IN  [st EXCEPT !.actual_speed = IF duration > 0
                                    THEN Rat(st.frame_time * 100, duration)
                                    ELSE @,
                   !.slept = IF elapsed < target_time
                             THEN target_time - elapsed
                             ELSE 0,
                   !.frame_duration = duration,
                   !.elapsed = elapsed]

\* MDStepFrame testing the running flag only
MDStepFrameIgnoresPause(m, readings) ==
    IF ~m.state.running
    THEN {m}
    ELSE LET w == MDFrameWork(m)
         IN  {[w EXCEPT !.state = MDPace(@, r[1], r[2])] : r \in readings}

\* step_frame: the possible results, one for each pair of clock readings
MDStepFrame(m, readings) ==
    IF ~m.state.running \/ m.state.paused
    THEN {m}
    ELSE LET w == MDFrameWork(m)
         IN  {[w EXCEPT !.state = MDPace(@, r[1], r[2])] : r \in readings}

MDDebugState(m) ==
    [System |-> [State |-> IF m.state.running THEN "Running"
                           ELSE IF m.state.paused THEN "Paused"
                           ELSE "Stopped",
                 Frame |-> m.state.frame_count,
                 Speed |-> Tenths(m.state.actual_speed),
                 FrameTime |-> Tenths(Rat(m.state.frame_time, 1000))],
     CPU |-> CPUDebugState(m.cpu),
     GPU |-> GPUDebugState(m.gpu),
     Audio |-> AudioDebugState(m.audio),
     Input |-> InputDebugState(m.input)]

----------------------------------------------------------------------------
(* WiiEmulatorApp *)

\* The MewDolphin object of the application, self.system
System == [cpu |-> cpu, gpu |-> gpu, audio |-> audio, input |-> input,
           state |-> sys]

SetSystem(m) ==
    /\ cpu' = m.cpu
    /\ gpu' = m.gpu
    /\ audio' = m.audio
    /\ input' = m.input
    /\ sys' = m.state

\* update_ui: the text it gives to status_label (the widgets themselves are
\* not part of the model's state)
UIStatus(st) ==
    IF st.running
    THEN (IF ~st.paused THEN "Running" ELSE "Paused")
    ELSE "Stopped"

\* No call has been made on a unit on its own
HistInit ==
    [steps |-> 0, vblanks |-> 0, front |-> 0,
     key |-> "", index |-> 0, pressed |-> FALSE, result |-> FALSE,
     error |-> "none"]

\* Keys the user presses: one of key_map and one that is not
Keys == {"z", "q"}

\* Clock readings <<idle, duration>>, in microseconds
IdleTimes == {0, 30000}
Durations == {0, 20000}
NominalReading == <<16000, 2000>>

MaxFrames == GpuHeight + ExtraFrames

UserActive == sys.frame_count < MaxCmdFrames \/ sys.frame_count >= GpuHeight

Readings == IF UserActive THEN IdleTimes \X Durations ELSE {NominalReading}

\* The step() calls of one step_frame on m that find the CPU running
FrameCalls(m) ==
    IF ~m.state.running \/ m.state.paused \/ ~m.cpu.running
    THEN 0 ELSE StepsPerFrame

Init ==
    /\ cpu = MDInit.cpu
    /\ gpu = MDInit.gpu
    /\ audio = MDInit.audio
    /\ input = MDInit.input
    /\ sys = MDInit.state
    /\ app_running = FALSE
    /\ last_op = "init"
    /\ calls = 0
    /\ hist = HistInit

OnRun ==
    /\ UserActive
    /\ sys' = [sys EXCEPT !.running = TRUE, !.paused = FALSE]
    /\ cpu' = [cpu EXCEPT !.running = TRUE]
    /\ app_running' = TRUE
    /\ last_op' = "run"
    /\ UNCHANGED <<gpu, audio, input, calls, hist>>

\* OnPause leaving the CPU's running flag as it was
OnPauseLeavesCpuRunning ==
    /\ UserActive
    /\ sys' = [sys EXCEPT !.paused = TRUE]
    /\ last_op' = "pause"
    /\ UNCHANGED <<cpu, gpu, audio, input, app_running, calls, hist>>

OnPause ==
    /\ UserActive
    /\ sys' = [sys EXCEPT !.paused = TRUE]
    /\ cpu' = [cpu EXCEPT !.running = FALSE]
    /\ last_op' = "pause"
    /\ UNCHANGED <<gpu, audio, input, app_running, calls, hist>>

OnReset ==
    /\ UserActive
    /\ SetSystem(MDReset(System))
    /\ app_running' = FALSE
    /\ last_op' = "reset"
    /\ calls' = 0
    /\ UNCHANGED hist

OnStep ==
    /\ UserActive
    /\ sys.frame_count < MaxFrames
    /\ LET m == [System EXCEPT !.state.paused = FALSE, !.cpu.running = TRUE]
       IN  /\ \E r \in MDStepFrame(m, Readings) :
                SetSystem([r EXCEPT !.state.paused = TRUE,
                                    !.cpu.running = FALSE])
           /\ calls' = calls + FrameCalls(m)
    /\ last_op' = "step"
    /\ UNCHANGED <<app_running, hist>>

ScheduleUpdate ==
    /\ sys.frame_count < MaxFrames
    /\ IF app_running
       THEN /\ \E r \in MDStepFrame(System, Readings) : SetSystem(r)
            /\ calls' = calls + FrameCalls(System)
       ELSE UNCHANGED <<cpu, gpu, audio, input, sys, calls>>
    /\ last_op' = "tick"
    /\ UNCHANGED <<app_running, hist>>

OnKey ==
    /\ UserActive
    /\ \E key \in Keys, pressed \in BOOLEAN :
          input' = HandleKey(input, key, pressed).input
    /\ last_op' = "key"
    /\ UNCHANGED <<cpu, gpu, audio, sys, app_running, calls, hist>>

Next == OnRun \/ OnPause \/ OnReset \/ OnStep \/ ScheduleUpdate \/ OnKey

Spec == Init /\ [][Next]_vars

----------------------------------------------------------------------------
(* The CPU unit on its own: step(), reset() and the running flag, from a   *)
(* CPU whose PC and GPR[0] hold chosen values, so that every branch of     *)
(* step() is taken.                                                        *)

\* 0x80000000 (startup), 0x40000004 and 0x40800000 (branch, forward and
\* backward), 0x73E00004 and 0x73E02000 (conditional branch on bit 0 of
\* GPR[0], forward and backward), 0x7C011C14 (add GPR[3] = GPR[0] + GPR[1]),
\* 0x7C000000 (other arithmetic), 0xFFFFFFFC (the last word of 32 bits)
PCSamples == {Big(32768, 0), Big(16384, 4), Big(16512, 0), Big(29664, 4),
              Big(29664, 8192), Big(31745, 7188), Big(31744, 0),
              Big(65535, 65532)}

GPR0Samples == {Big(0, 0), Big(0, 1)}

InitCPU ==
    /\ \E pc \in PCSamples, g0 \in GPR0Samples :
          cpu = [CPUInit EXCEPT !.PC = pc, !.GPR[0] = g0]
    /\ gpu = MDInit.gpu
    /\ audio = MDInit.audio
    /\ input = MDInit.input
    /\ sys = MDInit.state
    /\ app_running = FALSE
    /\ last_op = "init"
    /\ calls = 0
    /\ hist = HistInit

\* hist.steps counts the step() calls made since the initial state
CpuStepCall ==
    /\ hist.steps < MaxSteps
    /\ cpu' = CPUStep(cpu)
    /\ calls' = IF cpu.running THEN calls + 1 ELSE calls
    /\ hist' = [hist EXCEPT !.steps = @ + 1]
    /\ last_op' = "cpu.step"
    /\ UNCHANGED <<gpu, audio, input, sys, app_running>>

CpuResetCall ==
    /\ cpu' = CPUReset(cpu)
    /\ calls' = 0
    /\ last_op' = "cpu.reset"
    /\ UNCHANGED <<gpu, audio, input, sys, app_running, hist>>

\* The assignments to cpu.state['running'] made by on_run and on_pause
CpuSetRunning ==
    /\ \E b \in BOOLEAN : cpu' = [cpu EXCEPT !.running = b]
    /\ last_op' = "cpu.running"
    /\ UNCHANGED <<gpu, audio, input, sys, app_running, calls, hist>>

NextCPU == CpuStepCall \/ CpuResetCall \/ CpuSetRunning

SpecCPU == InitCPU /\ [][NextCPU]_vars

----------------------------------------------------------------------------
(* The CPU unit after a long run.  The instruction type step() decodes is  *)
(* bits 26..31 of the PC, so it changes only every 2^26 bytes, that is     *)
(* every 2^24 steps of 4 bytes.  From 0x80000000 to 0xFFFFFFFC the type is *)
(* 32..63 and from 0x100000000 (the PC is not reduced modulo 2^32) to      *)
(* 0x13FFFFFFC it is 0..15: none of them is the 16, 28 or 31 that step()   *)
(* treats apart, so each of the first 3 * 2^28 running steps after         *)
(* construction or reset adds 4 to the PC and changes no GPR.  The state   *)
(* they lead to is written down directly, and the runs start from it.      *)

\* The running steps after which the PC is 0xFFFFFFFC
StepsToLastWord == 2^29 - 1

\* The running steps between two changes of the instruction type
TypeStride == 2^24

\* The running steps after which the PC is 0x140000000, of type 16
StepsToSelfBranch == 48 * TypeStride

\* The CPU n running step() calls after c, for c as constructed or reset
\* and 0 <= n <= StepsToSelfBranch
CPUAfterRun(c, n) ==
    [c EXCEPT !.running = TRUE,
              !.PC = BigAdd(c.PC, BigMulInt(BigOfInt(n), 4)),
              !.last_pc = IF n = 0 THEN @
                          ELSE BigAdd(c.PC, BigMulInt(BigOfInt(n - 1), 4)),
              !.ticks = BigMulInt(BigOfInt(n), TicksPerInstr),
              !.instructions_executed = n]

\* Run lengths: none, one frame, up to the last word of 32 bits, the last
\* step before and the first step of every instruction type on the way,
\* and in every type a PC whose bits 1..10 are the add opcode 0x20A
RunLengths ==
    {0, StepsPerFrame, StepsToLastWord - 1, StepsToLastWord}
        \cup {k * TypeStride - 1 : k \in 1..48}
        \cup {k * TypeStride : k \in 1..48}
        \cup {k * TypeStride + 261 : k \in 0..47}

InitCPURun ==
    /\ \E n \in RunLengths, c \in {CPUInit, CPUReset(CPUInit)} :
          /\ cpu = CPUAfterRun(c, n)
          /\ calls = n
    /\ gpu = MDInit.gpu
    /\ audio = MDInit.audio
    /\ input = MDInit.input
    /\ sys = MDInit.state
    /\ app_running = FALSE
    /\ last_op = "init"
    /\ hist = HistInit

SpecCPURun == InitCPURun /\ [][NextCPU]_vars

----------------------------------------------------------------------------
(* The GPU unit on its own: step() and reset() on a WiiGPUCore constructed *)
(* with a small height.  hist.steps counts the step() calls since          *)
(* construction or the last reset, hist.vblanks those of them that set the *)
(* vblank flag, and hist.front is the framebuffer list the GPU had when it *)
(* was constructed or last reset.                                          *)

MaxGpuHeight == 8
MaxGpuFrames == 3

InitGPU ==
    /\ \E height \in 1..MaxGpuHeight : gpu = GPUInit(GpuWidth, height)
    /\ cpu = MDInit.cpu
    /\ audio = MDInit.audio
    /\ input = MDInit.input
    /\ sys = MDInit.state
    /\ app_running = FALSE
    /\ last_op = "init"
    /\ calls = 0
    /\ hist = [HistInit EXCEPT !.front = gpu.framebuffer.id]

GpuStepCall ==
    /\ gpu.frame_count < MaxGpuFrames
    /\ gpu' = GPUStep(gpu)
    /\ hist' = [hist EXCEPT !.steps = @ + 1,
                            !.vblanks = IF gpu'.vblank THEN @ + 1 ELSE @]
    /\ last_op' = "gpu.step"
    /\ UNCHANGED <<cpu, audio, input, sys, app_running, calls>>

GpuResetCall ==
    /\ gpu' = GPUReset(gpu)
    /\ hist' = [hist EXCEPT !.steps = 0,
                            !.vblanks = 0,
                            !.front = gpu'.framebuffer.id]
    /\ last_op' = "gpu.reset"
    /\ UNCHANGED <<cpu, audio, input, sys, app_running, calls>>

NextGPU == GpuStepCall \/ GpuResetCall

SpecGPU == InitGPU /\ [][NextGPU]_vars

----------------------------------------------------------------------------
(* The audio unit on its own: step(), reset() and debug_state() on a       *)
(* WiiAudioCore constructed with one of several buffer sizes: smaller than *)
(* the 1024 samples of a step, equal to them, larger, and the default.     *)

BufferSizes == {1, 1000, SamplesPerStep, 1500, AudioBufferSize}

MaxAudioSteps == 44

InitAudio ==
    /\ \E buffer_size \in BufferSizes : audio = AudioInit(buffer_size)
    /\ cpu = MDInit.cpu
    /\ gpu = MDInit.gpu
    /\ input = MDInit.input
    /\ sys = MDInit.state
    /\ app_running = FALSE
    /\ last_op = "init"
    /\ calls = 0
    /\ hist = HistInit

AudioStepCall ==
    /\ audio.sample_count < MaxAudioSteps * SamplesPerStep
    /\ audio' = AudioStep(audio)
    /\ last_op' = "audio.step"
    /\ UNCHANGED <<cpu, gpu, input, sys, app_running, calls, hist>>

AudioResetCall ==
    /\ audio' = AudioReset(audio)
    /\ last_op' = "audio.reset"
    /\ UNCHANGED <<cpu, gpu, input, sys, app_running, calls, hist>>

\* debug_state() reads the state and returns a new dictionary
AudioDebugCall ==
    /\ AudioDebugState(audio).Samples = audio.sample_count
    /\ last_op' = "audio.debug_state"
    /\ UNCHANGED <<cpu, gpu, audio, input, sys, app_running, calls, hist>>

NextAudio == AudioStepCall \/ AudioResetCall \/ AudioDebugCall

SpecAudio == InitAudio /\ [][NextAudio]_vars

----------------------------------------------------------------------------
(* The input unit inside a MewDolphin: set_button with indexes inside,     *)
(* past and before the 16 buttons, handle_key, reset, and frames of a      *)
(* system set running.  hist records the arguments of the last             *)
(* set_button or handle_key call, the value handle_key returned and the    *)
(* exception set_button raised.                                            *)

ButtonIndexes == {0, NumButtons - 1, NumButtons, 999, -1, -NumButtons - 1}

MaxInputFrames == 1

InputSetButton ==
    /\ \E button \in ButtonIndexes, pressed \in BOOLEAN :
          LET o == SetButton(input, button, pressed)
          IN  /\ input' = o.input
              /\ hist' = [HistInit EXCEPT !.index = button,
                                          !.pressed = pressed,
                                          !.error = o.error]
    /\ last_op' = "set_button"
    /\ UNCHANGED <<cpu, gpu, audio, sys, app_running, calls>>

InputHandleKey ==
    /\ \E key \in Keys, pressed \in BOOLEAN :
          LET o == HandleKey(input, key, pressed)
          IN  /\ input' = o.input
              /\ hist' = [HistInit EXCEPT !.key = key,
                                          !.pressed = pressed,
                                          !.result = o.result]
    /\ last_op' = "handle_key"
    /\ UNCHANGED <<cpu, gpu, audio, sys, app_running, calls>>

InputResetCall ==
    /\ input' = InputReset(input)
    /\ hist' = HistInit
    /\ last_op' = "input.reset"
    /\ UNCHANGED <<cpu, gpu, audio, sys, app_running, calls>>

\* One step_frame call, the clock showing the nominal reading
InputFrame ==
    /\ sys.frame_count < MaxInputFrames
    /\ \E r \in MDStepFrame(System, {NominalReading}) : SetSystem(r)
    /\ calls' = calls + FrameCalls(System)
    /\ last_op' = "frame"
    /\ UNCHANGED <<app_running, hist>>

NextInput ==
    InputSetButton \/ InputHandleKey \/ InputResetCall \/ OnRun \/ InputFrame

SpecInput == Init /\ [][NextInput]_vars

----------------------------------------------------------------------------
(* Properties *)

\* The run-state MewDolphin.debug_state() reports
ReportedState == MDDebugState(System).System.State

\* C1: after on_reset the system is Stopped: its running and paused flags
\* are both false and debug_state() reports 'Stopped'.
C1_ResetForcesStopped ==
    last_op = "reset" =>
        /\ ~sys.running
        /\ ~sys.paused
        /\ ReportedState = "Stopped"

\* C2: on_pause while the system's running flag is false changes nothing:
\* the flags and the reported run-state stay Stopped and no field of the
\* CPU, GPU, audio or input unit changes.
C2_PauseFromStoppedIsNoOp ==
    [][(last_op' = "pause" /\ ~sys.running /\ ~sys.paused) =>
          /\ sys' = sys
          /\ ReportedState' = "Stopped"
          /\ cpu' = cpu
          /\ gpu' = gpu
          /\ audio' = audio
          /\ input' = input]_vars

\* C3: on_step leaves the system's running and paused flags and the CPU's
\* running flag as they were before the call.
C3_StepKeepsRunState ==
    [][last_op' = "step" =>
          /\ sys'.running = sys.running
          /\ sys'.paused = sys.paused
          /\ cpu'.running = cpu.running]_vars

\* C4: one on_step raises the system frame counter by exactly 1 and the
\* CPU instruction counter by exactly 8100, whatever the run state.
C4_StepExecutesOneFrame ==
    [][last_op' = "step" =>
          /\ sys'.frame_count = sys.frame_count + 1
          /\ cpu'.instructions_executed =
                cpu.instructions_executed + StepsPerFrame]_vars

\* C5: every schedule_update that finds the system Running (running flag
\* true, paused flag false) raises the system frame counter by exactly 1.
C5_TickWhileRunningExecutesFrame ==
    [][(last_op' = "tick" /\ sys.running /\ ~sys.paused) =>
          sys'.frame_count = sys.frame_count + 1]_vars

\* A step_frame that passes its guard with the CPU running is about to be
\* made: by the timer, or by on_step (which clears paused and sets the CPU
\* running first).
FrameExecuted ==
    \/ last_op' = "tick" /\ app_running /\ sys.running /\ ~sys.paused
                         /\ cpu.running
    \/ last_op' = "step" /\ sys.running

\* C6: one executed frame, with the CPU running, raises the instruction
\* counter by exactly 8100, moves the GPU one scanline step on (to the next
\* line, or from the last line to line 0 with one more GPU frame), raises
\* the audio sample count by exactly 1024 and the system frame counter by
\* exactly 1.
C6_FrameIsFixedBundle ==
    [][FrameExecuted =>
          /\ cpu'.instructions_executed =
                cpu.instructions_executed + StepsPerFrame
          /\ cpu'.ticks = BigAddInt(cpu.ticks, TicksPerInstr * StepsPerFrame)
          /\ gpu'.current_line = (gpu.current_line + 1) % gpu.height
          /\ gpu'.frame_count =
                gpu.frame_count +
                (IF gpu.current_line + 1 = gpu.height THEN 1 ELSE 0)
          /\ audio'.sample_count = audio.sample_count + SamplesPerStep
          /\ sys'.frame_count = sys.frame_count + 1]_vars

\* A frame has just been executed by the timer and it was the one on which
\* the GPU wrapped from its last scanline
C6_Witness ==
    /\ last_op = "tick"
    /\ sys.frame_count = GpuHeight
    /\ gpu.current_line = 0
    /\ gpu.frame_count = 1
    /\ cpu.instructions_executed = GpuHeight * StepsPerFrame

\* C7: N calls of step() with the running flag set raise
\* instructions_executed by exactly N and ticks by exactly 3N, whatever the
\* PC and whichever branch is taken (both are 0 at construction and reset).
C7_CountersFollowCalls ==
    /\ cpu.instructions_executed = calls
    /\ cpu.ticks = BigMulInt(BigOfInt(calls), 3)

\* Two running steps have been made and the last one took the branch, the
\* conditional-branch or the arithmetic path
C7_Witness ==
    /\ last_op = "cpu.step"
    /\ calls >= 2
    /\ cpu.instructions_executed = calls
    /\ BitsOf(cpu.last_pc, 26, 6) \in {16, 28, 31}

\* C8: step() with the running flag false changes nothing of the CPU: PC,
\* every GPR, last_pc, ticks and instructions_executed stay as they were.
C8_StepWhileStoppedIsNoOp ==
    [][(last_op' = "cpu.step" /\ ~cpu.running) => cpu' = cpu]_vars

\* step() has just been called on a CPU that is not running and that had
\* executed instructions before
C8_Witness ==
    /\ last_op = "cpu.step"
    /\ ~cpu.running
    /\ cpu.instructions_executed > 0

\* C9: from every reachable state, the debug snapshot after two resets in a
\* row equals the snapshot after one, for each unit and for the system.
C9_ResetIdempotent ==
    /\ CPUDebugState(CPUReset(CPUReset(cpu))) = CPUDebugState(CPUReset(cpu))
    /\ GPUDebugState(GPUReset(GPUReset(gpu))) = GPUDebugState(GPUReset(gpu))
    /\ AudioDebugState(AudioReset(AudioReset(audio)))
          = AudioDebugState(AudioReset(audio))
    /\ InputDebugState(InputReset(InputReset(input)))
          = InputDebugState(InputReset(input))
    /\ MDDebugState(MDReset(MDReset(System))) = MDDebugState(MDReset(System))

\* The system was reset after a whole display frame had run, and
\* its snapshot is the one a further reset gives
C9_Witness ==
    /\ last_op = "reset"
    /\ sys.running
    /\ gpu.vblank
    /\ sys.actual_speed.num > 0
    /\ MDDebugState(MDReset(System)) = MDDebugState(System)

\* C10: after MewDolphin.reset every owned entity has its value of a
\* freshly constructed MewDolphin: CPU registers and state, GPU counters
\* and vblank flag, audio cursors and counters, buttons and mask, and the
\* system frame counter.
C10_ResetRestoresConstruction ==
    last_op = "reset" =>
        /\ cpu = MDInit.cpu
        /\ gpu.frame_count = MDInit.gpu.frame_count
        /\ gpu.current_line = MDInit.gpu.current_line
        /\ gpu.vblank = MDInit.gpu.vblank
        /\ audio = MDInit.audio
        /\ input = MDInit.input
        /\ sys.frame_count = MDInit.state.frame_count

\* C11: height calls of step() on a GPU just constructed or reset set the
\* vblank flag on exactly one call, the last one (no call before it sets
\* it), and leave frame_count at 1, current_line at 0 and a framebuffer
\* that is not the list object the GPU started with.
C11_HeightStepsMakeOneFrame ==
    /\ (0 < hist.steps /\ hist.steps < gpu.height) =>
           /\ hist.vblanks = 0
           /\ ~gpu.vblank
           /\ gpu.frame_count = 0
    /\ hist.steps = gpu.height =>
           /\ hist.vblanks = 1
           /\ gpu.vblank
           /\ gpu.frame_count = 1
           /\ gpu.current_line = 0
           /\ gpu.framebuffer.id # hist.front

\* A GPU of more than one line has just made its height-th step since it
\* was constructed or reset
C11_Witness ==
    /\ last_op = "gpu.step"
    /\ gpu.height > 1
    /\ hist.steps = gpu.height
    /\ hist.vblanks = 1
    /\ gpu.frame_count = 1

\* C17: the step() that wraps from the last scanline exchanges the two
\* buffer references: the list that was the backbuffer becomes the
\* framebuffer with the contents it had, and the list that was the
\* framebuffer becomes the backbuffer and is the one the moving pattern of
\* the new frame is drawn into.  Every other step() leaves both references
\* and both contents as they were.
C17_WrapHandsBuffersOver ==
    [][last_op' = "gpu.step" =>
          IF gpu.current_line + 1 >= gpu.height
          THEN /\ gpu'.framebuffer.id = gpu.backbuffer.id
               /\ gpu'.backbuffer.id = gpu.framebuffer.id
               /\ gpu'.framebuffer.px = gpu.backbuffer.px
               /\ gpu'.backbuffer.px = MovingPattern(gpu'.frame_count)
          ELSE /\ gpu'.framebuffer = gpu.framebuffer
               /\ gpu'.backbuffer = gpu.backbuffer]_vars

\* The second wrap since construction or reset has just happened: the
\* framebuffer is again the list the GPU started with, now holding the
\* pattern drawn at the first wrap
C17_Witness ==
    /\ last_op = "gpu.step"
    /\ gpu.height > 1
    /\ gpu.vblank
    /\ gpu.frame_count = 2
    /\ gpu.framebuffer.id = hist.front
    /\ gpu.framebuffer.px = MovingPattern(1)
    /\ gpu.backbuffer.px = MovingPattern(2)

\* C12: in every state reached by step() and reset() calls the stored fill
\* percentage of the audio buffer is at least 0 and at most 100.
C12_FillWithinPercentRange ==
    /\ audio.buffer_fill.den > 0
    /\ 0 <= audio.buffer_fill.num
    /\ audio.buffer_fill.num <= 100 * audio.buffer_fill.den

\* A step has left the default-sized buffer more than 99 per cent full:
\* the next step wraps the write cursor
C12_Witness ==
    /\ last_op = "audio.step"
    /\ audio.buffer_size = AudioBufferSize
    /\ audio.buffer_fill.num > 99 * audio.buffer_fill.den
    /\ audio.write_pos + SamplesPerStep > audio.buffer_size

\* Equality of two fractions (no product is formed when the denominators
\* agree)
RatEq(x, y) ==
    IF x.den = y.den THEN x.num = y.num ELSE x.num * y.den = y.num * x.den

\* The stored fill is the one the two cursors give
FillFollowsCursors ==
    RatEq(audio.buffer_fill,
          Rat(((audio.write_pos - audio.read_pos) % audio.buffer_size) * 100,
              audio.buffer_size))

\* C18: in every state reached by step() and reset() calls the stored fill
\* equals ((write_pos - read_pos) mod buffer_size) / buffer_size * 100,
\* and no call other than step() changes write_pos.
C18_FillFollowsCursorsOnlyStepMoves ==
    /\ []FillFollowsCursors
    /\ [][audio'.write_pos # audio.write_pos => last_op' = "audio.step"]_vars

\* C18 as amended: the stored fill always equals the value the cursors
\* give, and write_pos changes only inside step() and inside reset(), which
\* sets it back to 0.
C18_FillFollowsCursorsStepOrResetMoves ==
    /\ []FillFollowsCursors
    /\ [][audio'.write_pos # audio.write_pos =>
              \/ last_op' = "audio.step"
              \/ last_op' = "audio.reset" /\ audio'.write_pos = 0]_vars

\* The write cursor of the default-sized buffer has wrapped and the stored
\* fill is the small one the wrapped cursor gives
C18_Witness ==
    /\ last_op = "audio.step"
    /\ audio.buffer_size = AudioBufferSize
    /\ audio.sample_count > audio.buffer_size
    /\ audio.write_pos = audio.sample_count - audio.buffer_size
    /\ audio.buffer_fill = Rat(audio.write_pos * 100, audio.buffer_size)

\* The entries of button_state that differ between two states
ChangedButtons ==
    {b \in 0..(NumButtons - 1) : input'.button_state[b] # input.button_state[b]}

\* C13: handle_key with a key that key_map does not hold returns false and
\* leaves button_state and the mask as they were; with a key of key_map it
\* returns true and exactly one entry of button_state changes value,
\* whatever the buttons were before and whichever value pressed has.
C13_MappedKeyFlipsOneButton ==
    [][last_op' = "handle_key" =>
          IF hist'.key \in MappedKeys
          THEN /\ hist'.result
               /\ Cardinality(ChangedButtons) = 1
          ELSE /\ ~hist'.result
               /\ input' = input]_vars

\* C13 as amended: an unmapped key returns false and changes nothing; a
\* mapped key returns true and sets the button it maps to to pressed,
\* leaving every other entry as it was: one entry changes when that button
\* held the other value, none when it already held pressed.
C13_MappedKeySetsItsButton ==
    [][last_op' = "handle_key" =>
          IF hist'.key \in MappedKeys
          THEN /\ hist'.result
               /\ input'.button_state =
                     [input.button_state EXCEPT
                         ![ButtonOf(hist'.key)] = hist'.pressed]
               /\ ChangedButtons =
                     IF input.button_state[ButtonOf(hist'.key)] = hist'.pressed
                     THEN {} ELSE {ButtonOf(hist'.key)}
          ELSE /\ ~hist'.result
               /\ input' = input]_vars

\* handle_key has just released the button of a mapped key and returned
\* true, another button staying pressed
C13_Witness ==
    /\ last_op = "handle_key"
    /\ hist.key \in MappedKeys
    /\ ~hist.pressed
    /\ hist.result
    /\ ~input.button_state[ButtonOf(hist.key)]
    /\ input.button_state[NumButtons - 1]

\* C14: set_button with an index of 16 or more fails with an out-of-range
\* error and leaves button_state as it was.
C14_IndexPastEndIsAnError ==
    [][(last_op' = "set_button" /\ hist'.index >= NumButtons) =>
          /\ hist'.error # "none"
          /\ input'.button_state = input.button_state]_vars

\* The sum of 2^i over the buttons i of a set
RECURSIVE SumOfPowers(_)
SumOfPowers(S) ==
    IF S = {} THEN 0
    ELSE LET b == CHOOSE x \in S : TRUE
         IN  2^b + SumOfPowers(S \ {b})

MaskIsSumOfPressed ==
    input.active_buttons =
        SumOfPowers({b \in 0..(NumButtons - 1) : input.button_state[b]})

\* C19: after any sequence of handle_key, set_button (with any index),
\* reset and frame steps the mask active_buttons equals the sum of 2^i
\* over the pressed buttons i, and a frame step changes neither
\* button_state nor the mask.
C19_MaskFollowsButtons ==
    /\ []MaskIsSumOfPressed
    /\ [][last_op' = "frame" => input' = input]_vars

\* A frame has been executed with the first and the last button pressed
C19_Witness ==
    /\ last_op = "frame"
    /\ sys.frame_count > 0
    /\ input.button_state[0]
    /\ input.button_state[NumButtons - 1]
    /\ input.active_buttons = 2^(NumButtons - 1) + 1

\* C15: on_pause while the system is Running (running flag true, paused
\* flag false) leaves debug_state() reporting 'Paused' and the CPU's
\* running flag false; on_run on the paused system leaves debug_state()
\* reporting 'Running', the paused flag false and the CPU's running flag
\* true.
C15_PauseAndResume ==
    [][/\ (last_op' = "pause" /\ sys.running /\ ~sys.paused) =>
              /\ ReportedState' = "Paused"
              /\ ~cpu'.running
       /\ (last_op' = "run" /\ sys.running /\ sys.paused) =>
              /\ ReportedState' = "Running"
              /\ sys'.running
              /\ ~sys'.paused
              /\ cpu'.running]_vars

\* C16: every executed frame whose measured duration (frame end minus
\* frame start) is below the target frame time sleeps for the target minus
\* the measured duration; one whose duration is at least the target does
\* not sleep; the sleep is never negative.
C16_SleepsRestOfFrameDuration ==
    [][sys'.frame_count = sys.frame_count + 1 =>
          /\ sys'.slept = IF sys'.frame_duration < sys.frame_time
                          THEN sys.frame_time - sys'.frame_duration
                          ELSE 0
          /\ sys'.slept >= 0]_vars

\* C16 as amended: every executed frame that ends less than the target
\* frame time after last_frame_time (the end of the previous step_frame,
\* or construction or reset) sleeps for the target minus that elapsed
\* time; one that ends later does not sleep; the sleep is never negative.
C16_SleepsRestOfElapsed ==
    [][sys'.frame_count = sys.frame_count + 1 =>
          /\ sys'.slept = IF sys'.elapsed < sys.frame_time
                          THEN sys.frame_time - sys'.elapsed
                          ELSE 0
          /\ sys'.slept >= 0]_vars

\* A frame after the first, of a duration below the target, has ended so
\* long after last_frame_time that it did not sleep
C16_Witness ==
    /\ last_op \in {"tick", "step"}
    /\ sys.frame_count > 1
    /\ sys.frame_duration < sys.frame_time
    /\ sys.elapsed >= sys.frame_time
    /\ sys.slept = 0

\* C20: in every state reached from construction or reset by step() calls
\* made while running the PC is a 32-bit unsigned value, 0 <= PC < 2^32.
C20_PCFitsIn32Bits ==
    /\ 0 <= cpu.PC[1]
    /\ cpu.PC[1] < W
    /\ 0 <= cpu.PC[2]
    /\ cpu.PC[2] < W

\* C21: no running step() made from a state that running steps reach from
\* construction or reset takes the conditional-branch path (instruction
\* type 0x1C) or the add path (type 0x1F with opcode 0x20A), and none
\* writes a general-purpose register: every such step adds 4 to the PC,
\* or is the branch of type 0x10 at 0x140000000, which adds 0.
C21_BranchAndAddPathsDead ==
    [][(last_op' = "cpu.step" /\ cpu.running) =>
          /\ BitsOf(cpu.PC, 26, 6) # 28
          /\ ~(BitsOf(cpu.PC, 26, 6) = 31 /\ BitsOf(cpu.PC, 1, 10) = 522)
          /\ cpu'.GPR = cpu.GPR
          /\ cpu'.PC = IF BitsOf(cpu.PC, 26, 6) = 16
                       THEN cpu.PC
                       ELSE BigAddInt(cpu.PC, 4)]_vars

\* The run has reached 0x140000000 and a further running step has left
\* the PC there
C21_Witness ==
    /\ last_op = "cpu.step"
    /\ cpu.running
    /\ cpu.PC = Big(81920, 0)
    /\ cpu.last_pc = cpu.PC
    /\ cpu.instructions_executed > StepsToSelfBranch

\* The registers and counters of the CPU, without its running flag
CPUData(c) ==
    <<c.PC, c.LR, c.CTR, c.GPR, c.FPR, c.ticks, c.instructions_executed,
      c.last_pc>>

\* C22: a timer tick that finds the system not Running (running flag
\* false or paused flag true) changes nothing of the system, the CPU, the
\* GPU or the audio unit; and the step_frame that on_step calls on a system
\* whose running flag is false leaves the frame counter, the CPU's
\* registers and counters, the GPU and the audio unit as they were.
C22_FrameStepOffRunningIsNoOp ==
    [][/\ (last_op' = "tick" /\ (~sys.running \/ sys.paused)) =>
              /\ sys' = sys
              /\ cpu' = cpu
              /\ gpu' = gpu
              /\ audio' = audio
       /\ (last_op' = "step" /\ ~sys.running) =>
              /\ sys'.frame_count = sys.frame_count
              /\ CPUData(cpu') = CPUData(cpu)
              /\ gpu' = gpu
              /\ audio' = audio]_vars

\* The timer has ticked on a system that was set running, ran frames and
\* was paused
C22_Witness ==
    /\ last_op = "tick"
    /\ app_running
    /\ sys.running
    /\ sys.paused
    /\ sys.frame_count > 0
    /\ cpu.instructions_executed = sys.frame_count * StepsPerFrame

\* C23: in every state gpu.frame_count * gpu.height + gpu.current_line
\* equals the system frame counter, and gpu.current_line is at least 0
\* and less than gpu.height.
C23_ScanlinePerFrame ==
    /\ gpu.frame_count * gpu.height + gpu.current_line = sys.frame_count
    /\ 0 <= gpu.current_line
    /\ gpu.current_line < gpu.height

\* The GPU has wrapped and is one scanline into its second frame
C23_Witness ==
    /\ gpu.frame_count = 1
    /\ gpu.current_line = 1
    /\ sys.frame_count = GpuHeight + 1

\* C24: in every state the CPU's running flag is true exactly when the
\* system's running flag is true and its paused flag false, and every
\* frame that is executed runs the CPU's 8100 instructions.
C24_CpuFlagMirrorsRunState ==
    /\ [](cpu.running <=> (sys.running /\ ~sys.paused))
    /\ [][sys'.frame_count = sys.frame_count + 1 =>
              cpu'.instructions_executed =
                  cpu.instructions_executed + StepsPerFrame]_vars

\* The system was reset while Running, after a frame had run: both running
\* flags are still true and the application's is false
C24_Witness ==
    /\ last_op = "reset"
    /\ cpu.running
    /\ sys.running
    /\ ~sys.paused
    /\ ~app_running
    /\ sys.frame_duration > 0

\* C25: in every state the status update_ui computes equals the State
\* that debug_state() returns.
C25_StatusAgreesWithDebugState ==
    UIStatus(sys) = ReportedState

====
